---- MODULE Spec2Model ----
(***************************************************************************)
(* The `generate` command of the client generator, in its three revisions: *)
(*   "iso"  src/ab_client_generator/cli.py      (schema dump in subprocess) *)
(*   "ab"   src/src/ab_client_generator/cli.py  (schema dump in process)    *)
(*   "obo"  src/src/obo_client_generator/cli.py (schema dump in process)    *)
(* Strings are sequences of tokens, so that formatting, splitting and      *)
(* suffix tests are computed rather than assumed.  The command is cut at   *)
(* the points where it waits for a subprocess.                             *)
(***************************************************************************)
EXTENDS Integers, Sequences, FiniteSets, TLC

VARIABLES rev, dry, nsInstalled, walk, PATH, files, files0,
          pc, pos, any_found, service, module_path, cfg_path, nextTmp,
          procs, fsLog, out

vars == <<rev, dry, nsInstalled, walk, PATH, files, files0,
          pc, pos, any_found, service, module_path, cfg_path, nextTmp,
          procs, fsLog, out>>

\* Largest number of modules the package walk reports in one run.
MaxModules == 3

Revisions == {"iso", "ab", "obo"}

\* The namespace package each revision imports.
Namespace(r) == IF r = "obo" THEN "obo_service" ELSE "ab_service"

\* Directory the outputs are written to.
ORG_DIR(r) == IF r = "obo" THEN "CLIENT_DIR" ELSE "ORG_DIR"

-----------------------------------------------------------------------------
\* String helpers

RECURSIVE Join(_)
\* ".".join(parts)
Join(parts) ==
    IF Len(parts) = 0 THEN <<>>
    ELSE IF Len(parts) = 1 THEN <<parts[1]>>
    ELSE <<parts[1], ".">> \o Join(Tail(parts))

RECURSIVE Split(_)
\* name.split(".")
Split(name) ==
    IF Len(name) = 0 THEN <<>>
    ELSE IF Head(name) = "." THEN Split(Tail(name))
    ELSE <<Head(name)>> \o Split(Tail(name))

\* s.endswith(suf)
EndsWith(s, suf) ==
    /\ Len(s) >= Len(suf)
    /\ SubSeq(s, Len(s) - Len(suf) + 1, Len(s)) = suf

\* s.replace("_", "-") on the service names that occur
ReplaceUnderscore(s) == IF s = "user_db" THEN "user-db" ELSE s

\* sub occurs in s as a contiguous run of tokens
Contains(s, sub) ==
    \E i \in 1..(Len(s) + 1) :
        /\ i + Len(sub) - 1 <= Len(s)
        /\ SubSeq(s, i, i + Len(sub) - 1) = sub

\* path a lies in the directory tree rooted at d
Under(d, a) == Len(a) >= Len(d) /\ SubSeq(a, 1, Len(d)) = d

-----------------------------------------------------------------------------
\* The installed environment

\* What pkgutil.walk_packages can report, in its (sorted, depth first) order.
ModuleNames(r) ==
    << Join(<<Namespace(r), "broken", "main">>),
       Join(<<Namespace(r), "main">>),
       Join(<<Namespace(r), "noapp", "main">>),
       Join(<<Namespace(r), "user_db">>),
       Join(<<Namespace(r), "user_db", "main">>),
       Join(<<Namespace(r), "users", "main">>),
       Join(<<Namespace(r), "users", "v1", "main">>) >>

RECURSIVE PickFrom(_, _, _)
PickFrom(all, S, i) ==
    IF i > Len(all) THEN <<>>
    ELSE (IF i \in S THEN <<all[i]>> ELSE <<>>) \o PickFrom(all, S, i + 1)

Walks(r) ==
    { PickFrom(ModuleNames(r), S, 1) :
        S \in { T \in SUBSET (1..Len(ModuleNames(r))) : Cardinality(T) <= MaxModules } }

\* What importing the module does: "raises", "noapp" (no `app` attribute), "app".
ImportResult(name) ==
    IF Contains(name, <<"broken">>) THEN "raises"
    ELSE IF Contains(name, <<"noapp">>) THEN "noapp"
    ELSE "app"

-----------------------------------------------------------------------------
\* Paths

spec_path(r, svc) ==
    IF r = "obo" THEN <<ORG_DIR(r), "/", svc, "_openapi.json">>
    ELSE <<ORG_DIR(r), "/", "service-", ReplaceUnderscore(svc), "-openapi.json">>

sdk_dst(r, svc) ==
    IF r = "iso" THEN <<ORG_DIR(r), "/", "client-", ReplaceUnderscore(svc)>>
    ELSE IF r = "ab" THEN <<ORG_DIR(r), "/", "client-", "service-", ReplaceUnderscore(svc)>>
    ELSE <<ORG_DIR(r), "/", ReplaceUnderscore(svc), "-client">>

uv_lock_path(dst) == dst \o <<"/", "uv.lock">>

\* Name tempfile.NamedTemporaryFile gives its n-th file.
TmpName(n) == <<"/tmp/tmp", ToString(n), ".yml">>

\* Output directories that may exist before the run.
DirStates(r, svc) ==
    { {}, {sdk_dst(r, svc)}, {sdk_dst(r, svc), uv_lock_path(sdk_dst(r, svc))} }

-----------------------------------------------------------------------------
\* Messages written with typer.echo

DryBanner == <<"DRY-RUN - no SDKs will be written.">>

RepoRootMsg == <<"Repo root: ", "CLIENT_DIR">>

SkipMsg(name, exc) == <<"Skip ">> \o name \o <<": ">> \o exc

WouldDumpMsg(name, spec) ==
    <<"[DRY] Would dump OpenAPI via subprocess:">> \o name \o spec

OpenapiMsg(svc, spec) == <<"[", svc, "] openapi.json -> ">> \o spec

FoundLockMsg(lock) == <<"Found existing uv.lock file, removing it: ">> \o lock

ExistsMsg(dst) == <<"Directory ">> \o dst \o <<" already exists, will overwrite.">>

WouldRemoveMsg(dst) == <<"[DRY] Would remove ">> \o dst

WouldRunMsg(spec, dst, cfg) ==
    <<"[DRY] Would run:", "--path">> \o spec \o <<"--output-path">> \o dst
        \o <<"--config">> \o cfg \o <<"--overwrite">>

GeneratingMsg(svc, dst) == <<"[", svc, "] Generating SDK -> ">> \o dst

ReadyMsg(svc) == <<"[", svc, "] SDK ready">>

MigratingMsg(svc, tool, dst) ==
    <<"[", svc, "] Running '", tool, " migrate-to-uv' in ">> \o dst

MigratedMsg(svc) == <<"[", svc, "] uv migration complete">>

MigrationFailedMsg(svc) == <<"[", svc, "] uv migration failed: ", "CalledProcessError">>

NoToolMsg(svc) == <<"[", svc, "] 'uvx'/'uv' not found on PATH; skipping uv migration">>

NoServicesMsg(r) ==
    IF r = "iso" THEN <<"No FastAPI services found in the '", Namespace(r), ".' namespace">>
    ELSE <<"No FastAPI services with `app` found in the '", Namespace(r), ".' namespace">>

-----------------------------------------------------------------------------
\* Pieces of the command

\* The test that decides whether the walk item `name` is yielded.
IterYields(r, name) ==
    IF r = "iso"
    THEN /\ EndsWith(name, <<".", "main">>)
         /\ ~ (Len(Split(name)) < 3)
    ELSE /\ EndsWith(name, <<".", "main">>)
         /\ ImportResult(name) = "app"

\* Messages the walk prints for an item it does not yield.
IterSkipMsgs(r, name) ==
    IF r # "iso" /\ EndsWith(name, <<".", "main">>) /\ ImportResult(name) = "raises"
    THEN << SkipMsg(name, <<"ImportError">>) >>
    ELSE <<>>

\* What the interpreter started for the schema dump can end with.
DumpOutcomes(name) ==
    IF ImportResult(name) = "noapp"
    THEN { [rc |-> 1, stdout |-> <<>>,
            stderr |-> <<"RuntimeError: ">> \o name \o <<" has no attribute 'app'", "\n">>] }
    ELSE IF ImportResult(name) = "raises"
    THEN { [rc |-> 1, stdout |-> <<"importing", "\n">>, stderr |-> <<"ImportError", "\n">>] }
    ELSE { [rc |-> 0, stdout |-> <<"OK", "\n">>, stderr |-> <<>>],
           [rc |-> 1, stdout |-> <<>>, stderr |-> <<"Traceback", "\n">>],
           [rc |-> 1, stdout |-> <<"partial", "\n">>, stderr |-> <<"Traceback", "\n">>] }

DumpError_NoStderr(name, spec, stdout, stderr) ==
    <<"Failed to dump OpenAPI.\n", "Module: ">> \o name \o <<"\n", "Spec:   ">> \o spec
        \o <<"\n\n", "STDOUT:\n">> \o stdout \o <<"\n\n", "STDERR:\n">> \o <<"\n">>

\* Text of the RuntimeError raised when the dump exits nonzero.
DumpError(name, spec, stdout, stderr) ==
    <<"Failed to dump OpenAPI.\n", "Module: ">> \o name \o <<"\n", "Spec:   ">> \o spec
        \o <<"\n\n", "STDOUT:\n">> \o stdout \o <<"\n\n", "STDERR:\n">> \o stderr \o <<"\n">>

AfterDump_NoSkip(rc) == "prepare"

\* Where the loop body goes after the dump returned or raised.
AfterDump(rc) == IF rc # 0 THEN "iter" ELSE "prepare"

CleanSdkDir_KeepLock(r, fs, dst, isDry) ==
    LET lock == uv_lock_path(dst)
    IN  [ files |-> IF isDry THEN fs ELSE fs \cup {dst},
          log   |-> IF isDry THEN {} ELSE {<<"mkdir", dst>>},
          msgs  |-> IF dst \in fs
                    THEN (IF lock \in fs THEN <<FoundLockMsg(lock)>> ELSE <<>>)
                             \o <<ExistsMsg(dst)>>
                    ELSE <<>> ]

\* Step 2 of the loop body: clean and create the output directory.
CleanSdkDir(r, fs, dst, isDry) ==
    LET lock == uv_lock_path(dst)
    IN  IF r = "iso"
        THEN [ files |-> IF isDry THEN fs
                         ELSE (IF dst \in fs THEN fs \ {lock} ELSE fs) \cup {dst},
               log   |-> IF isDry THEN {}
                         ELSE (IF dst \in fs /\ lock \in fs THEN {<<"unlink", lock>>} ELSE {})
                                  \cup {<<"mkdir", dst>>},
               msgs  |-> IF dst \in fs
                         THEN (IF lock \in fs THEN <<FoundLockMsg(lock)>> ELSE <<>>)
                                  \o <<ExistsMsg(dst)>>
                         ELSE <<>> ]
        ELSE [ files |-> IF isDry THEN fs
                         ELSE { f \in fs : ~ Under(dst, f) } \cup {dst},
               log   |-> IF isDry THEN {}
                         ELSE (IF dst \in fs THEN {<<"rmtree", dst>>} ELSE {})
                                  \cup {<<"mkdir", dst>>},
               msgs  |-> IF dst \in fs /\ isDry THEN <<WouldRemoveMsg(dst)>> ELSE <<>> ]

\* The `finally` clause after the generator: the files that remain.
CleanupCfg(r, fs, cfg, isDry) ==
    IF r = "iso" /\ cfg \in fs /\ ~ isDry THEN fs \ {cfg} ELSE fs

CleanupLog(r, fs, cfg, isDry) ==
    IF r = "iso" /\ cfg \in fs /\ ~ isDry THEN {<<"unlink", cfg>>} ELSE {}

NoneFound_Silent(r, found) == <<>>

\* The report after the loop.
NoneFound(r, found) == IF ~ found THEN <<NoServicesMsg(r)>> ELSE <<>>

\* shutil.which: the migration tool that is used, "" when there is none.
MigrationTool(path) ==
    IF "uvx" \in path THEN "uvx" ELSE IF "uv" \in path THEN "uv" ELSE ""

Proc(kind, idx, rc, stdout, stderr, cfg) ==
    [kind |-> kind, idx |-> idx, rc |-> rc, stdout |-> stdout, stderr |-> stderr, cfg |-> cfg]

-----------------------------------------------------------------------------
Init ==
    /\ rev \in Revisions
    /\ dry \in BOOLEAN
    /\ nsInstalled \in BOOLEAN
    /\ walk \in (IF nsInstalled THEN Walks(rev) ELSE {<<>>})
    /\ PATH \in (IF rev = "iso" THEN {{}, {"uv"}, {"uvx", "uv"}} ELSE {{}})
    /\ \E a \in DirStates(rev, "users"), b \in DirStates(rev, "user_db") :
           files = a \cup b
    /\ files0 = files
    /\ pc = "start"
    /\ pos = 0
    /\ any_found = FALSE
    /\ service = ""
    /\ module_path = <<>>
    /\ cfg_path = <<>>
    /\ nextTmp = 0
    /\ procs = <<>>
    /\ fsLog = {}
    /\ out = <<>>

env == <<rev, dry, nsInstalled, walk, PATH, files0>>

\* Entry of generate: the banners.
Generate ==
    /\ pc = "start"
    /\ out' = out \o (IF rev = "obo" THEN <<RepoRootMsg>> ELSE <<>>)
                  \o (IF dry THEN <<DryBanner>> ELSE <<>>)
    /\ pc' = "iter"
    /\ UNCHANGED <<env, files, pos, any_found, service, module_path, cfg_path,
                   nextTmp, procs, fsLog>>

\* One round of the `for info in pkgutil.walk_packages(...)` loop.
IterNext ==
    /\ pc = "iter"
    /\ nsInstalled
    /\ pos < Len(walk)
    /\ pos' = pos + 1
    /\ LET name == walk[pos + 1]
       IN  IF IterYields(rev, name)
           THEN /\ service' = Split(name)[2]
                /\ module_path' = name
                /\ any_found' = TRUE
                /\ pc' = "dump"
                /\ out' = out
           ELSE /\ out' = out \o IterSkipMsgs(rev, name)
                /\ UNCHANGED <<service, module_path, any_found, pc>>
    /\ UNCHANGED <<env, files, cfg_path, nextTmp, procs, fsLog>>

\* The walk is exhausted (or the namespace is not installed): end of generate.
Finish ==
    /\ pc = "iter"
    /\ (~ nsInstalled \/ pos = Len(walk))
    /\ out' = out \o NoneFound(rev, any_found)
    /\ pc' = "done"
    /\ UNCHANGED <<env, files, pos, any_found, service, module_path, cfg_path,
                   nextTmp, procs, fsLog>>

\* Step 1: dump the OpenAPI document.
DumpOpenapi ==
    /\ pc = "dump"
    /\ LET spec == spec_path(rev, service)
       IN  IF rev = "iso"
           THEN IF dry
                THEN /\ out' = out \o << WouldDumpMsg(module_path, spec),
                                         OpenapiMsg(service, spec) >>
                     /\ pc' = "prepare"
                     /\ UNCHANGED <<files, procs, fsLog>>
                ELSE \E o \in DumpOutcomes(module_path) :
                     /\ procs' = Append(procs, Proc("dump", pos, o.rc, o.stdout, o.stderr, <<>>))
                     /\ files' = IF o.rc = 0 THEN files \cup {spec} ELSE files
                     /\ out' = out \o
                          << IF o.rc # 0
                             THEN SkipMsg(module_path,
                                          DumpError(module_path, spec, o.stdout, o.stderr))
                             ELSE OpenapiMsg(service, spec) >>
                     /\ pc' = AfterDump(o.rc)
                     /\ UNCHANGED fsLog
           ELSE /\ files' = files \cup {spec}
                /\ fsLog' = fsLog \cup {<<"write", spec>>}
                /\ out' = out \o << OpenapiMsg(service, spec) >>
                /\ pc' = "prepare"
                /\ UNCHANGED procs
    /\ UNCHANGED <<env, pos, any_found, service, module_path, cfg_path, nextTmp>>

\* Steps 2 to 4: output directory, configuration override file, command line.
PrepareSdk ==
    /\ pc = "prepare"
    /\ LET dst   == sdk_dst(rev, service)
           clean == CleanSdkDir(rev, files, dst, dry)
           tmp   == TmpName(nextTmp)
       IN  /\ files' = clean.files \cup {tmp}
           /\ fsLog' = fsLog \cup clean.log \cup {<<"mktemp", tmp>>}
           /\ cfg_path' = tmp
           /\ nextTmp' = nextTmp + 1
           /\ IF dry
              THEN /\ out' = out \o clean.msgs
                                 \o << WouldRunMsg(spec_path(rev, service), dst, tmp) >>
                   /\ pc' = "iter"
              ELSE /\ out' = out \o clean.msgs \o << GeneratingMsg(service, dst) >>
                   /\ pc' = "gen"
    /\ UNCHANGED <<env, pos, any_found, service, module_path, procs>>

\* Step 5: run the generator, then the cleanup of the configuration file.
RunGenerator ==
    /\ pc = "gen"
    /\ \E rc \in {0, 1} :
         LET dst   == sdk_dst(rev, service)
             after == IF rc = 0 THEN files \cup {dst \o <<"/", "pyproject.toml">>} ELSE files
         IN  /\ procs' = Append(procs, Proc("gen", pos, rc, <<>>, <<>>, cfg_path))
             /\ files' = CleanupCfg(rev, after, cfg_path, dry)
             /\ fsLog' = fsLog \cup CleanupLog(rev, after, cfg_path, dry)
             /\ IF rc # 0
                THEN /\ pc' = "aborted"
                     /\ out' = out
                ELSE /\ pc' = IF rev = "iso" THEN "migrate" ELSE "iter"
                     /\ out' = out \o << ReadyMsg(service) >>
    /\ UNCHANGED <<env, pos, any_found, service, module_path, cfg_path, nextTmp>>

\* Step 6: migrate the generated project to uv.
Migrate ==
    /\ pc = "migrate"
    /\ LET dst  == sdk_dst(rev, service)
           tool == MigrationTool(PATH)
       IN  IF tool = ""
           THEN /\ out' = out \o << NoToolMsg(service) >>
                /\ UNCHANGED <<files, procs>>
           ELSE \E rc \in {0, 1}, createsLock \in BOOLEAN :
                /\ (rc # 0 => ~ createsLock)
                /\ procs' = Append(procs, Proc(tool, pos, rc, <<>>, <<>>, <<>>))
                /\ files' = IF createsLock THEN files \cup {uv_lock_path(dst)} ELSE files
                /\ out' = out \o << MigratingMsg(service, tool, dst),
                                    IF rc # 0 THEN MigrationFailedMsg(service)
                                    ELSE MigratedMsg(service) >>
    /\ pc' = "iter"
    /\ UNCHANGED <<env, pos, any_found, service, module_path, cfg_path, nextTmp, fsLog>>

Next ==
    \/ Generate
    \/ IterNext
    \/ Finish
    \/ DumpOpenapi
    \/ PrepareSdk
    \/ RunGenerator
    \/ Migrate

Spec == Init /\ [][Next]_vars

-----------------------------------------------------------------------------
\* Vocabulary of the properties

Ended == pc \in {"done", "aborted"}

ProcIdx == 1..Len(procs)

WalkIdx == 1..Len(walk)

IsMigration(p) == p.kind \in {"uvx", "uv"}

\* Position of a subprocess in the per-service order dump, generator, migration.
Stage(p) == IF p.kind = "dump" THEN 1 ELSE IF p.kind = "gen" THEN 2 ELSE 3

\* The loop body was entered for walk item j.
Processed(j) == pos >= j

\* Every service that comes after walk item i was processed.
LaterProcessed(i) ==
    \A j \in WalkIdx : (j > i /\ IterYields(rev, walk[j])) => Processed(j)

\* Service name of walk item j.
ServiceOf(j) == Split(walk[j])[2]

\* name has the form <namespace>.<svc>.main
OneLevelMain(r, name) ==
    /\ Len(Split(name)) = 3
    /\ name = Join(<<Namespace(r), Split(name)[2], "main">>)

-----------------------------------------------------------------------------
\* C1: a run with --dry performs no filesystem write and starts no
\* subprocess; the files existing after the run are those existing before.
C1_DryRunHasNoEffect ==
    dry => (fsLog = {} /\ procs = <<>> /\ files = files0)

\* C2: in a non-dry run, when the generator exits nonzero for one service,
\* every later service of the discovery sequence is still processed.
C2_GeneratorFailureIsLocal ==
    (~ dry /\ Ended) =>
        \A k \in ProcIdx :
            (procs[k].kind = "gen" /\ procs[k].rc # 0) => LaterProcessed(procs[k].idx)

\* C3: in the subprocess-isolated revision, when the schema dump of a service
\* fails, a skip message naming the module is reported, no generator and no
\* migration is started for that service, and every later service is
\* still processed.
C3_ExtractionFailureSkipsService ==
    rev = "iso" =>
        \A k \in ProcIdx :
            (procs[k].kind = "dump" /\ procs[k].rc # 0) =>
                /\ \E i \in 1..Len(out) : Contains(out[i], <<"Skip ">> \o walk[procs[k].idx])
                /\ \A n \in ProcIdx : procs[n].idx = procs[k].idx => procs[n].kind = "dump"
                /\ Ended => LaterProcessed(procs[k].idx)

\* C4: in the subprocess-isolated revision, a failed lockfile migration is
\* caught and reported and never aborts the run: every later service is still
\* processed and the command completes normally.
C4_MigrationFailureNeverAborts ==
    rev = "iso" =>
        \A k \in ProcIdx :
            (IsMigration(procs[k]) /\ procs[k].rc # 0) =>
                /\ \E i \in 1..Len(out) : out[i] = MigrationFailedMsg(ServiceOf(procs[k].idx))
                /\ pc # "aborted"
                /\ Ended => LaterProcessed(procs[k].idx)

\* C5: in a non-dry run, the configuration override file of a service whose
\* generator exited zero no longer exists once that service is finished, and
\* after a run in which every generator succeeded no such file remains.
C5_ConfigFileRemovedOnSuccess ==
    ~ dry =>
        /\ \A k \in ProcIdx :
               ( /\ procs[k].kind = "gen"
                 /\ procs[k].rc = 0
                 /\ (procs[k].idx < pos \/ pc \in {"migrate", "iter", "done"}) )
               => procs[k].cfg \notin files
        /\ ( /\ pc = "done"
             /\ \A k \in ProcIdx : procs[k].kind = "gen" => procs[k].rc = 0 )
           => \A n \in 0..(nextTmp - 1) : TmpName(n) \notin files

\* C6: in a non-dry run of the subprocess-isolated revision, a uv.lock that
\* the output directory of a service contains is removed before the generator
\* for that service is started; the generator never runs while it is present.
C6_LockRemovedBeforeGenerator ==
    (rev = "iso" /\ pc = "gen") =>
        LET lock == uv_lock_path(sdk_dst(rev, service))
        IN  /\ lock \notin files
            /\ lock \in files0 => <<"unlink", lock>> \in fsLog

C6_Witness ==
    /\ rev = "iso"
    /\ pc = "gen"
    /\ uv_lock_path(sdk_dst(rev, service)) \in files0
    /\ uv_lock_path(sdk_dst(rev, service)) \notin files

\* C7: when discovery yields no service, generate (with or without --dry)
\* writes no file, starts no subprocess, reports that no services were found
\* and completes normally.
C7_NoServicesFound ==
    (\A j \in WalkIdx : ~ IterYields(rev, walk[j])) =>
        /\ fsLog = {}
        /\ procs = <<>>
        /\ files = files0
        /\ pc \in {"start", "iter", "done"}
        /\ pc = "done" => (Len(out) > 0 /\ out[Len(out)] = NoServicesMsg(rev))

C7_Witness ==
    /\ \A j \in WalkIdx : ~ IterYields(rev, walk[j])
    /\ pc = "done"
    /\ ~ dry
    /\ Len(walk) >= 2
    /\ out[Len(out)] = NoServicesMsg(rev)

\* C8: in the subprocess-isolated revision, when the schema dump exits
\* nonzero, the message shown for that service contains the module path, the
\* destination schema path and the captured stdout and stderr, unmodified.
C8_DumpErrorCarriesOutput ==
    rev = "iso" =>
        \A k \in ProcIdx :
            (procs[k].kind = "dump" /\ procs[k].rc # 0) =>
                \E i \in 1..Len(out) :
                    /\ Contains(out[i], <<"Module: ">> \o walk[procs[k].idx])
                    /\ Contains(out[i], <<"Spec:   ">>
                                            \o spec_path(rev, ServiceOf(procs[k].idx)))
                    /\ Contains(out[i], <<"STDOUT:\n">> \o procs[k].stdout \o <<"\n\n">>)
                    /\ Contains(out[i], <<"STDERR:\n">> \o procs[k].stderr \o <<"\n">>)

C8_Witness ==
    /\ rev = "iso"
    /\ \E k \in ProcIdx :
           /\ procs[k].kind = "dump"
           /\ procs[k].rc # 0
           /\ procs[k].stdout # <<>>
           /\ procs[k].stderr # <<>>
           /\ \E i \in 1..Len(out) :
                  Contains(out[i], <<"STDERR:\n">> \o procs[k].stderr \o <<"\n">>)

\* C9: iter_service_module_names yields exactly the modules of the form
\* ab_service.<svc>.main (one level under the namespace), each with
\* service = <svc>, and no module at any other depth.
C9_ExactlyOneLevel ==
    rev = "iso" =>
        /\ \A j \in WalkIdx :
               (j <= pos /\ OneLevelMain(rev, walk[j])) => IterYields(rev, walk[j])
        /\ pc = "dump" =>
               /\ OneLevelMain(rev, module_path)
               /\ service = Split(module_path)[2]

\* C10: in a non-dry run of the subprocess-isolated revision, the dump,
\* generator and migration of a service are each started at most once and in
\* that order, services are never revisited, the generator is started only
\* after that service's dump exited zero and the migration only after that
\* service's generator exited zero.
C10_ForwardOnly ==
    (rev = "iso" /\ ~ dry) =>
        \A b \in ProcIdx :
            /\ \A a \in 1..(b - 1) :
                   /\ procs[a].idx <= procs[b].idx
                   /\ procs[a].idx = procs[b].idx => Stage(procs[a]) < Stage(procs[b])
            /\ procs[b].kind = "gen" =>
                   \E a \in 1..(b - 1) :
                       /\ procs[a].idx = procs[b].idx
                       /\ procs[a].kind = "dump"
                       /\ procs[a].rc = 0
            /\ IsMigration(procs[b]) =>
                   \E a \in 1..(b - 1) :
                       /\ procs[a].idx = procs[b].idx
                       /\ procs[a].kind = "gen"
                       /\ procs[a].rc = 0

C10_Witness ==
    /\ rev = "iso"
    /\ ~ dry
    /\ pc = "done"
    /\ \E a, b, c, d \in ProcIdx :
           /\ procs[a].kind = "dump" /\ procs[a].rc # 0
           /\ procs[b].kind = "dump" /\ procs[b].rc = 0
           /\ procs[c].kind = "gen" /\ procs[c].idx = procs[b].idx
           /\ IsMigration(procs[d]) /\ procs[d].idx = procs[b].idx

====
